---- MODULE Spec2Model ----
(***************************************************************************)
(* pyOutlook, core/message.py: the Message entity, its factories, the      *)
(* shared API call gateway and the action methods built on it.             *)
(*                                                                         *)
(* Python values are modelled as follows.  A dict is a function whose      *)
(* DOMAIN is its key set (the empty dict is << >>).  An optional argument  *)
(* (None or a value) is a sequence of length 0 or 1.  A str that the code  *)
(* only concatenates is a TLA+ string; a str that the code scans           *)
(* (str.format templates, a comma separated recipient string) is a tuple   *)
(* of one-character strings.  A raised exception is the name of its class  *)
(* in the field "raised" of a call's result, "none" when the call returns. *)
(***************************************************************************)
EXTENDS Integers, Sequences, FiniteSets, TLC

VARIABLES
    message,    \* the Message object the action methods are invoked on
    last,       \* the last invocation on it: method, arguments, response, outcome
    api_input,  \* the argument handed to a factory classmethod
    produced    \* what the factory call gave: its value or the exception raised

vars == <<message, last, api_input, produced>>

---------------------------------------------------------------------------
(* Bounds of the model *)

\* longest `value` array of a batch listing response
MaxBatch == 2

---------------------------------------------------------------------------
(* Python built-ins the code relies on *)

\* dict.get(key, default)
Get(d, key, default) == IF key \in DOMAIN d THEN d[key] ELSE default

\* dict.update(other): the keys of other win
Update(d, other) == other @@ d

\* "".join(chars), by halves
RECURSIVE Join(_)
Join(chars) ==
    IF Len(chars) = 0 THEN ""
    ELSE IF Len(chars) = 1 THEN chars[1]
    ELSE LET half == Len(chars) \div 2
         IN  Join(SubSeq(chars, 1, half)) \o Join(SubSeq(chars, half + 1, Len(chars)))

Digits == {"0", "1", "2", "3", "4", "5", "6", "7", "8", "9"}

\* int(c) of one decimal digit
DigitValue(c) == CHOOSE n \in 0..9 : ToString(n) = c

\* The index of the "}" that closes the replacement field whose "{" stands
\* before position i (depth counts the braces still open); 0 when the
\* template ends first.
RECURSIVE FieldEnd(_, _, _)
FieldEnd(s, i, depth) ==
    IF i > Len(s) THEN 0
    ELSE IF s[i] = "{" THEN FieldEnd(s, i + 1, depth + 1)
    ELSE IF s[i] = "}" THEN IF depth = 1 THEN i ELSE FieldEnd(s, i + 1, depth - 1)
    ELSE FieldEnd(s, i + 1, depth)

\* The least element of a non-empty set of positions
Least(S) == CHOOSE k \in S : \A m \in S : k <= m

\* The index where a field's name ends: the first ":" or "!" in i..e-1, else e.
NameEnd(s, i, e) ==
    LET marks == {k \in i..(e - 1) : s[k] \in {":", "!"}}
    IN  IF marks = {} THEN e ELSE Least(marks)

\* The index of the first brace at or after i, Len(s) + 1 when there is none
NextBrace(s, i) ==
    LET braces == {k \in i..Len(s) : s[k] \in {"{", "}"}}
    IN  IF braces = {} THEN Len(s) + 1 ELSE Least(braces)

\* str.format(*args) from position i on, `auto` being the next automatic
\* field number.  Text up to the next brace is copied; "{{" and "}}" are
\* literal braces; a field with an empty name takes the next positional
\* argument, a one-digit name that positional argument, any other name is
\* looked up among the keyword arguments, of which the call sites pass none.
RECURSIVE Format(_, _, _, _)
Format(s, i, args, auto) ==
    IF i > Len(s) THEN [raised |-> "none", value |-> ""]
    ELSE IF NextBrace(s, i) > i THEN
        LET rest == Format(s, NextBrace(s, i), args, auto)
        IN  IF rest.raised # "none" THEN rest
            ELSE [rest EXCEPT !.value = Join(SubSeq(s, i, NextBrace(s, i) - 1)) \o @]
    ELSE IF i < Len(s) /\ s[i + 1] = s[i] THEN
        LET rest == Format(s, i + 2, args, auto)
        IN  IF rest.raised # "none" THEN rest ELSE [rest EXCEPT !.value = s[i] \o @]
    ELSE IF s[i] = "}" THEN [raised |-> "ValueError", value |-> ""]
    ELSE
        LET e    == FieldEnd(s, i + 1, 1)
            n    == NameEnd(s, i + 1, e)
            name == SubSeq(s, i + 1, n - 1)
        IN  IF e = 0 THEN [raised |-> "ValueError", value |-> ""]
            ELSE IF name = << >> \/ (Len(name) = 1 /\ name[1] \in Digits) THEN
                LET k == IF name = << >> THEN auto + 1 ELSE DigitValue(name[1]) + 1
                IN  IF k > Len(args) THEN [raised |-> "IndexError", value |-> ""]
                    ELSE LET rest == Format(s, e + 1, args, auto + 1)
                         IN  IF rest.raised # "none" THEN rest
                             ELSE [rest EXCEPT !.value = args[k] \o @]
            ELSE [raised |-> "KeyError", value |-> ""]

\* template.format(arg)
str_format(template, arg) == Format(template, 1, <<arg>>, 0)

\* json.dumps of a bool
json_dumps_bool(b) == IF b THEN "true" ELSE "false"

\* json.dumps(dict(IsRead=boolean))
json_dumps_IsRead(payload) == "{\"IsRead\": " \o json_dumps_bool(payload["IsRead"]) \o "}"

---------------------------------------------------------------------------
(* The Message object and its factories *)

\* Message.__init__
Message(account, message_id, body, subject, sender_email, sender_name, to_recipients, is_read) ==
    [account       |-> account,
     message_id    |-> message_id,
     body          |-> body,
     subject       |-> subject,
     sender_email  |-> sender_email,
     sender_name   |-> sender_name,
     to_recipients |-> to_recipients,
     is_read       |-> is_read]

\* _json_to_message reading 'Subject' with a plain subscript
json_to_message_SubjectRequired(account, api_json) ==
    IF "Id" \notin DOMAIN api_json THEN [raised |-> "KeyError", key |-> "Id"]
    ELSE IF "Subject" \notin DOMAIN api_json THEN [raised |-> "KeyError", key |-> "Subject"]
    ELSE IF "IsRead" \notin DOMAIN api_json THEN [raised |-> "KeyError", key |-> "IsRead"]
    ELSE [raised |-> "none",
          value  |-> Message(account, api_json["Id"],
                             Get(Get(api_json, "Body", << >>), "Content", ""),
                             api_json["Subject"],
                             Get(Get(Get(api_json, "Sender", << >>), "EmailAddress", << >>),
                                 "Address", ""),
                             Get(Get(Get(api_json, "Sender", << >>), "EmailAddress", << >>),
                                 "Name", ""),
                             Get(api_json, "ToRecipients", << >>), api_json["IsRead"])]

\* Message._json_to_message: api_json['Id'] and api_json['IsRead'] are plain
\* subscripts (KeyError when the key is missing, 'Id' being read first);
\* every other field is read with .get and a default.
_json_to_message(account, api_json) ==
    IF "Id" \notin DOMAIN api_json THEN [raised |-> "KeyError", key |-> "Id"]
    ELSE
        LET uid           == api_json["Id"]
            subject       == Get(api_json, "Subject", "")
            sender        == Get(Get(api_json, "Sender", << >>), "EmailAddress", << >>)
            sender_email  == Get(sender, "Address", "")
            sender_name   == Get(sender, "Name", "")
            body          == Get(Get(api_json, "Body", << >>), "Content", "")
            to_recipients == Get(api_json, "ToRecipients", << >>)
        IN  IF "IsRead" \notin DOMAIN api_json THEN [raised |-> "KeyError", key |-> "IsRead"]
            ELSE [raised |-> "none",
                  value  |-> Message(account, uid, body, subject, sender_email, sender_name,
                                     to_recipients, api_json["IsRead"])]

\* The list comprehension of _json_to_messages over the entries i..Len(entries):
\* entries are converted in order, and the first one that raises ends it.
RECURSIVE Comprehension(_, _, _)
Comprehension(account, entries, i) ==
    IF i > Len(entries) THEN [raised |-> "none", value |-> << >>]
    ELSE
        LET one == _json_to_message(account, entries[i])
        IN  IF one.raised # "none" THEN one
            ELSE LET rest == Comprehension(account, entries, i + 1)
                 IN  IF rest.raised # "none" THEN rest
                     ELSE [rest EXCEPT !.value = <<one.value>> \o @]

\* _json_to_messages starting at the second entry
json_to_messages_SkipsFirst(account, json_value) ==
    IF "value" \notin DOMAIN json_value THEN [raised |-> "KeyError", key |-> "value"]
    ELSE Comprehension(account, json_value["value"], 2)

\* Message._json_to_messages
_json_to_messages(account, json_value) ==
    IF "value" \notin DOMAIN json_value THEN [raised |-> "KeyError", key |-> "value"]
    ELSE Comprehension(account, json_value["value"], 1)

---------------------------------------------------------------------------
(* Inputs of the factories *)

Accounts == {[access_token |-> "tokA"], [access_token |-> "tokB"]}

\* A dict with the key when present is TRUE, the empty dict otherwise
Entry(present, key, val) == IF present THEN key :> val ELSE << >>

Recipient(name, address) == [EmailAddress |-> [Name |-> name, Address |-> address]]

SenderValues ==
    { << >>,
      [EmailAddress |-> << >>],
      [EmailAddress |-> [Address |-> "ann@x.io"]],
      [EmailAddress |-> [Name |-> "Ann"]],
      [EmailAddress |-> [Address |-> "ann@x.io", Name |-> "Ann"]] }

BodyValues == { << >>, [ContentType |-> "HTML"], [ContentType |-> "HTML", Content |-> "<p>Hi</p>"] }

ToRecipientsValues == { << >>, <<Recipient("Bob", "bob@y.io")>> }

\* Every raw message object over the keys the factory reads, each key present or not
JsonObjects ==
    { Entry(hasId, "Id", id) @@ Entry(hasSubject, "Subject", "Hello")
        @@ Entry(hasSender, "Sender", sender) @@ Entry(hasBody, "Body", body)
        @@ Entry(hasTo, "ToRecipients", to) @@ Entry(hasRead, "IsRead", read) :
        hasId \in BOOLEAN, id \in {"AAA"}, hasSubject \in BOOLEAN,
        hasSender \in BOOLEAN, sender \in SenderValues,
        hasBody \in BOOLEAN, body \in BodyValues,
        hasTo \in BOOLEAN, to \in ToRecipientsValues,
        hasRead \in BOOLEAN, read \in BOOLEAN }

\* The raw objects a batch is made of: some valid, some lacking a required key
BatchObjects ==
    { Entry(hasId, "Id", id) @@ Entry(hasSubject, "Subject", "Hello")
        @@ Entry(hasRead, "IsRead", read) :
        hasId \in BOOLEAN, id \in {"AAA", "BBB"}, hasSubject \in BOOLEAN,
        hasRead \in BOOLEAN, read \in BOOLEAN }

RECURSIVE SeqsUpTo(_, _)
SeqsUpTo(S, n) ==
    IF n = 0 THEN { << >> }
    ELSE LET shorter == SeqsUpTo(S, n - 1)
         IN  shorter \cup { Append(s, x) : s \in {t \in shorter : Len(t) = n - 1}, x \in S }

Batches == { [value |-> entries] : entries \in SeqsUpTo(BatchObjects, MaxBatch) }

IsValidObject(api_json) == {"Id", "IsRead"} \subseteq DOMAIN api_json

---------------------------------------------------------------------------
(* The remote side: what the transport answers to one request *)

\* A body requests can decode as JSON
ErrorDocument == "{\"error\": {\"code\": \"ErrorItemNotFound\"}}"

\* The bodies requests can decode as JSON
JsonBodies == {ErrorDocument}

\* The responses considered, r.status_code and r.content: success with and
\* without a body, both sides of 299, and each failure status with a JSON
\* error document and with an empty body
Responses ==
    { [status_code |-> 200, content |-> ""],
      [status_code |-> 299, content |-> ErrorDocument],
      [status_code |-> 300, content |-> ""],
      [status_code |-> 300, content |-> ErrorDocument],
      [status_code |-> 401, content |-> ""],
      [status_code |-> 401, content |-> ErrorDocument],
      [status_code |-> 500, content |-> ErrorDocument] }

\* r.json(): the decoded body, or the decoder's exception when the body is
\* not a JSON document (an empty body is not one)
Response_json(r) ==
    IF r.content \in JsonBodies THEN [raised |-> "none", value |-> r.content]
    ELSE [raised |-> "JSONDecodeError"]

---------------------------------------------------------------------------
(* The API call gateway *)

\* The headers every request carries
DefaultHeaders(self) ==
    ("Authorization" :> ("Bearer " \o self.account.access_token))
        @@ ("Content-Type" :> "application/json")

\* requests.post / requests.patch send the body, requests.delete is called
\* without one
HttpRequest(http_type, endpoint, headers, data) ==
    [verb     |-> http_type,
     endpoint |-> endpoint,
     headers  |-> headers,
     data     |-> IF http_type = "delete" THEN << >> ELSE data]

\* Message._make_api_call, answered by the response r.  The arguments of
\* log.error are evaluated before it is called, so r.json() runs on every
\* status above 299 and its exception replaces the one about to be raised.
\* `raise NotImplemented` raises TypeError: NotImplemented is no exception.
_make_api_call(self, http_type, endpoint, extra_headers, data, r) ==
    LET headers == IF extra_headers # << >>
                   THEN Update(DefaultHeaders(self), extra_headers[1])
                   ELSE DefaultHeaders(self)
        sent    == <<HttpRequest(http_type, endpoint, headers, data)>>
    IN  IF http_type \notin {"post", "delete", "patch"}
        THEN [raised |-> "TypeError", requests |-> << >>, trace |-> << >>]
        ELSE IF r.status_code = 401
        THEN [raised   |-> IF Response_json(r).raised # "none"
                           THEN Response_json(r).raised ELSE "AuthError",
              requests |-> sent, trace |-> <<"request">>]
        ELSE IF r.status_code > 299
        THEN [raised   |-> IF Response_json(r).raised # "none"
                           THEN Response_json(r).raised ELSE "MiscError",
              requests |-> sent, trace |-> <<"request">>]
        ELSE [raised |-> "none", requests |-> sent, trace |-> <<"request">>]

\* What an action method hands back: the object as the method leaves it,
\* the exception it ends with, the requests it issued, and the order of its
\* observable steps ("warn", "request", "write")
Outcome(self, call) ==
    [self |-> self, raised |-> call.raised, requests |-> call.requests, trace |-> call.trace]

\* A method that raises before it reaches the gateway
Raises(self, exception) ==
    [self |-> self, raised |-> exception, requests |-> << >>, trace |-> << >>]

---------------------------------------------------------------------------
(* Recipient formatting (pyOutlook.internal.utils) *)

\* s.split(','), cur being the piece read so far
RECURSIVE Split(_, _)
Split(s, cur) ==
    IF s = << >> THEN <<cur>>
    ELSE IF Head(s) = "," THEN <<cur>> \o Split(Tail(s), << >>)
    ELSE Split(Tail(s), Append(cur, Head(s)))

\* s.strip()
RECURSIVE Strip(_)
Strip(s) ==
    IF s = << >> THEN s
    ELSE IF Head(s) = " " THEN Strip(Tail(s))
    ELSE IF s[Len(s)] = " " THEN Strip(SubSeq(s, 1, Len(s) - 1))
    ELSE s

RecipientJson(address) == "{\"EmailAddress\": {\"Address\": \"" \o address \o "\"}}"

RECURSIVE JoinRecipients(_)
JoinRecipients(addresses) ==
    IF addresses = << >> THEN ""
    ELSE IF Len(addresses) = 1 THEN RecipientJson(addresses[1])
    ELSE RecipientJson(addresses[1]) \o "," \o JoinRecipients(Tail(addresses))

\* jsonify_recipients(recipients, r_type, silent): a comma separated string
\* is split and trimmed, a sequence is taken as it is, and each address
\* becomes one {"EmailAddress": {"Address": ...}} object
jsonify_recipients(recipients, r_type, silent) ==
    IF recipients.kind = "str"
    THEN LET pieces == Split(recipients.chars, << >>)
         IN  JoinRecipients([i \in 1..Len(pieces) |-> Join(Strip(pieces[i]))])
    ELSE JoinRecipients(recipients.items)

---------------------------------------------------------------------------
(* The action methods *)

EndpointChars ==
    <<"h", "t", "t", "p", "s", ":", "/", "/", "o", "u", "t", "l", "o", "o", "k", ".", "o", "f",
      "f", "i", "c", "e", ".", "c", "o", "m", "/", "a", "p", "i", "/", "v", "2", ".", "0", "/",
      "m", "e", "/", "m", "e", "s", "s", "a", "g", "e", "s", "/">>

\* 'https://outlook.office.com/api/v2.0/me/messages/'
MessagesEndpoint == Join(EndpointChars)

\* 'https://outlook.office.com/api/v2.0/me/messages/{}/forward'
ForwardEndpointTemplate == EndpointChars \o <<"{", "}", "/", "f", "o", "r", "w", "a", "r", "d">>

\* 'https://outlook.office.com/api/v2.0/me/messages/{}/replyall'
ReplyAllEndpointTemplate == EndpointChars \o <<"{", "}", "/", "r", "e", "p", "l", "y", "a", "l", "l">>

\* 'https://outlook.office.com/api/v2.0/me/messages/{}'
PatchEndpointTemplate == EndpointChars \o <<"{", "}">>

\* '{ "DestinationId": "{}"}'
CopyPayloadTemplate ==
    <<"{", " ", "\"", "D", "e", "s", "t", "i", "n", "a", "t", "i", "o", "n", "I", "d", "\"", ":",
      " ", "\"", "{", "}", "\"", "}">>

\* Message.forward_message
forward_message(self, to_recipients, forward_comment, r) ==
    LET comment  == IF forward_comment # << >>
                    THEN "\"Comment\" : \"" \o forward_comment[1] \o "\","
                    ELSE ""
        endpoint == str_format(ForwardEndpointTemplate, self.message_id)
    IN  IF to_recipients.kind = "None" THEN Raises(self, "MiscError")
        ELSE IF endpoint.raised # "none" THEN Raises(self, endpoint.raised)
        ELSE LET payload == "{" \o comment \o "\"ToRecipients\" : ["
                                \o jsonify_recipients(to_recipients, "to", TRUE) \o "]}"
             IN  Outcome(self, _make_api_call(self, "post", endpoint.value, << >>,
                                              <<payload>>, r))

\* Message.reply
reply(self, reply_comment, r) ==
    LET payload  == "{ \"Comment\": \"" \o reply_comment \o "\"}"
        endpoint == MessagesEndpoint \o self.message_id \o "/reply"
    IN  Outcome(self, _make_api_call(self, "post", endpoint, << >>, <<payload>>, r))

\* Message.reply_all
reply_all(self, reply_comment, r) ==
    LET payload  == "{ \"Comment\": \"" \o reply_comment \o "\"}"
        endpoint == str_format(ReplyAllEndpointTemplate, self.message_id)
    IN  IF endpoint.raised # "none" THEN Raises(self, endpoint.raised)
        ELSE Outcome(self, _make_api_call(self, "post", endpoint.value, << >>, <<payload>>, r))

\* delete forgetting the identifier once the remote message is gone
delete_ClearsId(self, r) ==
    LET endpoint == MessagesEndpoint \o self.message_id
        call     == _make_api_call(self, "delete", endpoint, << >>, << >>, r)
    IN  IF call.raised # "none" THEN Outcome(self, call)
        ELSE Outcome([self EXCEPT !.message_id = ""], call)

\* Message.delete
delete(self, r) ==
    LET endpoint == MessagesEndpoint \o self.message_id
    IN  Outcome(self, _make_api_call(self, "delete", endpoint, << >>, << >>, r))

\* delete_message warning after self.delete() has returned
delete_message_WarnsLast(self, r) ==
    LET deleted == delete(self, r)
    IN  IF deleted.raised # "none" THEN deleted
        ELSE [deleted EXCEPT !.trace = @ \o <<"warn">>]

\* Message.delete_message: warnings.warn, then self.delete()
delete_message(self, r) ==
    LET deleted == delete(self, r)
    IN  [deleted EXCEPT !.trace = <<"warn">> \o @]

\* _move_to passing an upper-case verb to the gateway
move_to_UpperCaseVerb(self, destination, r) ==
    LET endpoint == MessagesEndpoint \o self.message_id \o "/move"
        payload  == "{ \"DestinationId\": \"" \o destination \o "\"}"
    IN  Outcome(self, _make_api_call(self, "POST", endpoint, << >>, <<payload>>, r))

\* Message._move_to
_move_to(self, destination, r) ==
    LET endpoint == MessagesEndpoint \o self.message_id \o "/move"
        payload  == "{ \"DestinationId\": \"" \o destination \o "\"}"
    IN  Outcome(self, _make_api_call(self, "post", endpoint, << >>, <<payload>>, r))

move_to_inbox(self, r) == _move_to(self, "Inbox", r)

move_to_deleted(self, r) == _move_to(self, "DeletedItems", r)

move_to_drafts(self, r) == _move_to(self, "Drafts", r)

move_to(self, folder_id, r) == _move_to(self, folder_id, r)

\* Message._copy_to
_copy_to(self, destination, r) ==
    LET access_token == self.account.access_token
        headers  == ("Authorization" :> ("Bearer " \o access_token))
                        @@ ("Content-Type" :> "application/json")
        endpoint == MessagesEndpoint \o self.message_id \o "/copy"
        payload  == str_format(CopyPayloadTemplate, destination)
    IN  IF payload.raised # "none" THEN Raises(self, payload.raised)
        ELSE Outcome(self, _make_api_call(self, "post", endpoint, <<headers>>,
                                          <<payload.value>>, r))

copy_to_inbox(self, r) == _copy_to(self, "Inbox", r)

copy_to_deleted(self, r) == _copy_to(self, "DeletedItems", r)

copy_to_drafts(self, r) == _copy_to(self, "Drafts", r)

copy_to(self, folder_id, r) == _copy_to(self, folder_id, r)

\* The is_read property
is_read(self) == self.is_read

\* The is_read setter writing the private field before the gateway is called
is_read_setter_WritesFirst(self, boolean, r) ==
    LET endpoint == str_format(PatchEndpointTemplate, self.message_id)
        payload  == [IsRead |-> boolean]
        written  == [self EXCEPT !.is_read = boolean]
        call     == _make_api_call(written, "patch", endpoint.value, << >>,
                                   <<json_dumps_IsRead(payload)>>, r)
    IN  [self     |-> written,
         raised   |-> call.raised,
         requests |-> call.requests,
         trace    |-> <<"write">> \o call.trace]

\* The is_read setter: the gateway first, the private field after it
is_read_setter(self, boolean, r) ==
    LET endpoint == str_format(PatchEndpointTemplate, self.message_id)
        payload  == [IsRead |-> boolean]
    IN  IF endpoint.raised # "none" THEN Raises(self, endpoint.raised)
        ELSE LET call == _make_api_call(self, "patch", endpoint.value, << >>,
                                        <<json_dumps_IsRead(payload)>>, r)
             IN  IF call.raised # "none" THEN Outcome(self, call)
                 ELSE [self     |-> [self EXCEPT !.is_read = boolean],
                       raised   |-> "none",
                       requests |-> call.requests,
                       trace    |-> call.trace \o <<"write">>]

---------------------------------------------------------------------------
(* Arguments the callers pass *)

\* to_recipients of forward_message: None, a str or a list of addresses
RecipientArguments ==
    { [kind |-> "None"],
      [kind |-> "str", chars |-> << >>],
      [kind |-> "str", chars |-> <<"a", "@", "x", ",", " ", "b", "@", "y">>],
      [kind |-> "list", items |-> << >>],
      [kind |-> "list", items |-> <<"a@x">>] }

\* forward_comment: None or a str
ForwardComments == { << >>, <<"FYI">> }

ReplyComments == {"<b>Thanks</b>"}

FolderIds == {"AAMkAGI2Folder"}

\* The listing entries the Message under test is constructed from
ConstructionObjects ==
    { Entry(TRUE, "Id", id) @@ Entry(TRUE, "Subject", "Hello") @@ Entry(TRUE, "IsRead", read) :
        id \in {"AAA", "BBB"}, read \in BOOLEAN }

---------------------------------------------------------------------------
(* The action methods as steps on one Message *)

NoCall(self) ==
    [method   |-> "none",
     args     |-> << >>,
     response |-> [status_code |-> 0, content |-> ""],
     before   |-> self,
     self     |-> self,
     raised   |-> "none",
     requests |-> << >>,
     trace    |-> << >>]

\* A Message is constructed by the factory from one listing entry
Init ==
    \E account \in Accounts, api_json \in ConstructionObjects :
        /\ api_input = [method |-> "_json_to_message", account |-> account, json |-> api_json]
        /\ produced = _json_to_message(account, api_json)
        /\ message = produced.value
        /\ last = NoCall(message)

\* One synchronous invocation: the invocation is recorded with what the
\* method gave, and the object becomes what the method leaves
Invoke(method, args, r, result) ==
    /\ last' = [method |-> method, args |-> args, response |-> r, before |-> message]
                   @@ result
    /\ message' = last'.self
    /\ UNCHANGED <<api_input, produced>>

Forward ==
    \E to \in RecipientArguments, comment \in ForwardComments, r \in Responses :
        Invoke("forward_message", <<to, comment>>, r, forward_message(message, to, comment, r))

Reply ==
    \E comment \in ReplyComments, r \in Responses :
        Invoke("reply", <<comment>>, r, reply(message, comment, r))

ReplyAll ==
    \E comment \in ReplyComments, r \in Responses :
        Invoke("reply_all", <<comment>>, r, reply_all(message, comment, r))

DeleteMessage == \E r \in Responses : Invoke("delete_message", << >>, r, delete_message(message, r))

Delete == \E r \in Responses : Invoke("delete", << >>, r, delete(message, r))

MoveToInbox == \E r \in Responses : Invoke("move_to_inbox", << >>, r, move_to_inbox(message, r))

MoveToDeleted ==
    \E r \in Responses : Invoke("move_to_deleted", << >>, r, move_to_deleted(message, r))

MoveToDrafts == \E r \in Responses : Invoke("move_to_drafts", << >>, r, move_to_drafts(message, r))

MoveTo ==
    \E folder_id \in FolderIds, r \in Responses :
        Invoke("move_to", <<folder_id>>, r, move_to(message, folder_id, r))

CopyToInbox == \E r \in Responses : Invoke("copy_to_inbox", << >>, r, copy_to_inbox(message, r))

CopyToDeleted ==
    \E r \in Responses : Invoke("copy_to_deleted", << >>, r, copy_to_deleted(message, r))

CopyToDrafts == \E r \in Responses : Invoke("copy_to_drafts", << >>, r, copy_to_drafts(message, r))

CopyTo ==
    \E folder_id \in FolderIds, r \in Responses :
        Invoke("copy_to", <<folder_id>>, r, copy_to(message, folder_id, r))

SetIsRead ==
    \E boolean \in BOOLEAN, r \in Responses :
        Invoke("is_read", <<boolean>>, r, is_read_setter(message, boolean, r))

Next ==
    \/ Forward
    \/ Reply
    \/ ReplyAll
    \/ DeleteMessage
    \/ Delete
    \/ MoveToInbox
    \/ MoveToDeleted
    \/ MoveToDrafts
    \/ MoveTo
    \/ CopyToInbox
    \/ CopyToDeleted
    \/ CopyToDrafts
    \/ CopyTo
    \/ SetIsRead

Spec == Init /\ [][Next]_vars

---------------------------------------------------------------------------
(* The factories as functions of their input *)

FactoryInputs ==
    { [method |-> "_json_to_message", account |-> account, json |-> api_json] :
        account \in Accounts, api_json \in JsonObjects }
    \cup
    { [method |-> "_json_to_messages", account |-> account, json |-> json_value] :
        account \in Accounts, json_value \in Batches }

InitFactory ==
    /\ api_input \in FactoryInputs
    /\ produced = [raised |-> "pending"]
    /\ message = "None"
    /\ last = "None"

JsonToMessage ==
    /\ api_input.method = "_json_to_message"
    /\ produced.raised = "pending"
    /\ produced' = _json_to_message(api_input.account, api_input.json)
    /\ UNCHANGED <<api_input, message, last>>

JsonToMessages ==
    /\ api_input.method = "_json_to_messages"
    /\ produced.raised = "pending"
    /\ produced' = _json_to_messages(api_input.account, api_input.json)
    /\ UNCHANGED <<api_input, message, last>>

NextFactory == JsonToMessage \/ JsonToMessages

SpecFactory == InitFactory /\ [][NextFactory]_vars

---------------------------------------------------------------------------
(* Vocabulary of the properties *)

Called == last.method # "none"

\* None, an empty str or an empty sequence given as to_recipients
IsEmptyRecipients(to) ==
    \/ to.kind = "None"
    \/ to.kind = "str" /\ to.chars = << >>
    \/ to.kind = "list" /\ to.items = << >>

MoveMethods == {"move_to_inbox", "move_to_deleted", "move_to_drafts", "move_to"}

CopyMethods == {"copy_to_inbox", "copy_to_deleted", "copy_to_drafts", "copy_to"}

\* The destination a move or copy method names
DestinationOf(method, args) ==
    IF method \in {"move_to_inbox", "copy_to_inbox"} THEN "Inbox"
    ELSE IF method \in {"move_to_deleted", "copy_to_deleted"} THEN "DeletedItems"
    ELSE IF method \in {"move_to_drafts", "copy_to_drafts"} THEN "Drafts"
    ELSE args[1]

\* The verb each action method is to use
VerbOf(method) ==
    IF method \in {"delete", "delete_message"} THEN "delete"
    ELSE IF method = "is_read" THEN "patch"
    ELSE "post"

\* The value under a path of keys in nested dicts: <<v>>, or << >> when a key is absent
RECURSIVE Lookup(_, _)
Lookup(d, path) ==
    IF path = << >> THEN <<d>>
    ELSE IF Head(path) \notin DOMAIN d THEN << >>
    ELSE Lookup(d[Head(path)], Tail(path))

\* The field of a Message an optional key fills: the key's value, or the default
Defaulted(d, path, default) == IF Lookup(d, path) = << >> THEN default ELSE Lookup(d, path)[1]

---------------------------------------------------------------------------
(* Properties *)

\* C1: assigning is_read = b issues the patch request first and writes the
\* local field only afterwards: on a status <= 299 the local is_read is b, on
\* any status above 299 the setter raises and is_read keeps its prior value.
C1_SetterWritesOnlyAfterSuccess ==
    last.method = "is_read" =>
        /\ Len(last.requests) = 1
        /\ last.requests[1].verb = "patch"
        /\ last.requests[1].data = <<json_dumps_IsRead([IsRead |-> last.args[1]])>>
        /\ IF last.response.status_code <= 299
           THEN /\ last.raised = "none"
                /\ message.is_read = last.args[1]
                /\ last.trace = <<"request", "write">>
           ELSE /\ last.raised # "none"
                /\ message.is_read = last.before.is_read
                /\ last.trace = <<"request">>

\* C1 happens: a setter call answered 401 with the value that differs from the local one
C1_Witness ==
    /\ last.method = "is_read"
    /\ last.response.status_code = 401
    /\ last.args[1] # last.before.is_read
    /\ message.is_read = last.before.is_read

\* C2: the gateway's outcome is decided by the status alone, whatever the
\* body: 401 raises AuthError, any other status above 299 raises MiscError,
\* a status <= 299 returns normally.
C2_OutcomeByStatusAlone ==
    (Called /\ Len(last.requests) = 1) =>
        last.raised = IF last.response.status_code = 401 THEN "AuthError"
                      ELSE IF last.response.status_code > 299 THEN "MiscError"
                      ELSE "none"

\* C3: forward_message with recipients that are None or empty raises
\* MiscError and issues no request.
C3_EmptyRecipientsRaise ==
    (last.method = "forward_message" /\ IsEmptyRecipients(last.args[1])) =>
        /\ last.raised = "MiscError"
        /\ last.requests = << >>

\* C4: whatever the action methods and responses so far, every constructed
\* field but is_read is as the factory set it, and is_read changes only in
\* an is_read assignment that the remote side answered with success.
C4_OnlyIsReadChanges ==
    /\ [message EXCEPT !.is_read = produced.value.is_read] = produced.value
    /\ Called =>
        /\ last.self = message
        /\ message.is_read # last.before.is_read =>
            /\ last.method = "is_read"
            /\ last.raised = "none"
            /\ last.response.status_code <= 299

\* C4 happens: a successful delete() on an object whose is_read was changed before
C4_Witness ==
    /\ last.method = "delete"
    /\ last.raised = "none"
    /\ message.is_read # produced.value.is_read
    /\ message.message_id = produced.value.message_id

\* C5: every invocation of an action method issues at most one request, and
\* exactly one when it passes its local validation.
C5_ExactlyOneRequest ==
    Called =>
        /\ Len(last.requests) <= 1
        /\ ~(last.method = "forward_message" /\ IsEmptyRecipients(last.args[1])) =>
               Len(last.requests) = 1

\* C6: delete_message() issues the request delete() issues (verb delete, the
\* bare message endpoint, no body), ends as delete() ends, and warns before
\* the request, so also when the request fails.
C6_DeleteMessageIsDelete ==
    last.method = "delete_message" =>
        /\ last.requests = <<[verb     |-> "delete",
                              endpoint |-> MessagesEndpoint \o last.before.message_id,
                              headers  |-> DefaultHeaders(last.before),
                              data     |-> << >>]>>
        /\ last.requests = delete(last.before, last.response).requests
        /\ last.raised = delete(last.before, last.response).raised
        /\ last.self = delete(last.before, last.response).self
        /\ last.trace = <<"warn", "request">>

\* C6 happens: delete_message() answered 401
C6_Witness ==
    /\ last.method = "delete_message"
    /\ last.raised = "AuthError"
    /\ Head(last.trace) = "warn"

\* C7: every request an action method issues carries the verb of that
\* method, one of post, delete and patch, and no invocation ends in the
\* gateway's unimplemented-verb branch.
C7_VerbsImplemented ==
    Called =>
        /\ last.raised # "TypeError"
        /\ \A i \in 1..Len(last.requests) :
               /\ last.requests[i].verb \in {"post", "delete", "patch"}
               /\ last.requests[i].verb = VerbOf(last.method)

\* C7 happens: a move reached the gateway with its post
C7_Witness ==
    /\ last.method = "move_to_drafts"
    /\ Len(last.requests) = 1
    /\ last.requests[1].verb = "post"

\* C8: each move method issues one post to .../me/messages/M/move with its
\* DestinationId, and each copy method the same request against
\* .../me/messages/M/copy, under the default headers.
C8_MoveAndCopyRequests ==
    last.method \in MoveMethods \cup CopyMethods =>
        last.requests =
            <<[verb     |-> "post",
               endpoint |-> MessagesEndpoint \o last.before.message_id
                                \o (IF last.method \in MoveMethods THEN "/move" ELSE "/copy"),
               headers  |-> DefaultHeaders(last.before),
               data     |-> <<"{ \"DestinationId\": \""
                                  \o DestinationOf(last.method, last.args) \o "\"}">>]>>

\* C9: for a batch whose entries are all valid, _json_to_messages returns as
\* many Messages as entries, the i-th being the single-object factory's
\* Message for the i-th entry, all bound to the account given.
C9_BatchPreservesOrder ==
    (/\ api_input.method = "_json_to_messages"
     /\ produced.raised # "pending"
     /\ \A i \in 1..Len(api_input.json.value) : IsValidObject(api_input.json.value[i])) =>
        /\ produced.raised = "none"
        /\ Len(produced.value) = Len(api_input.json.value)
        /\ \A i \in 1..Len(api_input.json.value) :
               /\ produced.value[i] =
                      _json_to_message(api_input.account, api_input.json.value[i]).value
               /\ produced.value[i].message_id = api_input.json.value[i]["Id"]
               /\ produced.value[i].account = api_input.account

\* C9 happens: a batch of two valid entries with different ids
C9_Witness ==
    /\ api_input.method = "_json_to_messages"
    /\ produced.raised = "none"
    /\ Len(produced.value) >= 2
    /\ produced.value[1].message_id = "BBB"
    /\ produced.value[2].message_id = "AAA"

\* C10: from an object with Id and IsRead, _json_to_message gives a Message
\* with that id and read state, every optional field being the value found
\* or its default when absent; without Id or IsRead it raises the lookup
\* failure and gives no Message.
C10_FactoryDefaults ==
    (api_input.method = "_json_to_message" /\ produced.raised # "pending") =>
        IF IsValidObject(api_input.json)
        THEN /\ produced.raised = "none"
             /\ produced.value =
                    [account       |-> api_input.account,
                     message_id    |-> api_input.json["Id"],
                     is_read       |-> api_input.json["IsRead"],
                     subject       |-> Defaulted(api_input.json, <<"Subject">>, ""),
                     body          |-> Defaulted(api_input.json, <<"Body", "Content">>, ""),
                     sender_email  |-> Defaulted(api_input.json,
                                                 <<"Sender", "EmailAddress", "Address">>, ""),
                     sender_name   |-> Defaulted(api_input.json,
                                                 <<"Sender", "EmailAddress", "Name">>, ""),
                     to_recipients |-> Defaulted(api_input.json, <<"ToRecipients">>, << >>)]
        ELSE /\ produced.raised = "KeyError"
             /\ "value" \notin DOMAIN produced

\* C10 happens: the object {"Id": "AAA", "IsRead": false} became a Message
C10_Witness ==
    /\ api_input.method = "_json_to_message"
    /\ api_input.json = [Id |-> "AAA", IsRead |-> FALSE]
    /\ produced.raised = "none"
    /\ produced.value.subject = ""
    /\ produced.value.message_id = "AAA"
    /\ produced.value.is_read = FALSE

====
